---- MODULE Spec2Model ----
(***************************************************************************)
(* PhotoTagger.py: work catalog / completion ledger reconciliation and the *)
(* batch loop of batch_process_images, with the three persisted files, the *)
(* photo tree and the wall clock as the environment.                       *)
(*                                                                         *)
(* Paths are sequences of tokens (separators and name chunks); a dict is   *)
(* a sequence of records with pairwise distinct "normalized_path" (python  *)
(* dicts keep insertion order); a file is a record with its "kind":        *)
(* "absent", "json" (a list of records, as json.dump wrote it) or "text"   *)
(* (lines that are not one JSON document: a legacy ledger, or the prefix   *)
(* a killed json.dump left behind).                                        *)
(***************************************************************************)
EXTENDS Integers, Sequences, FiniteSets, TLC

VARIABLES
    clock,                  \* time.time()
    disk,                   \* the photo tree: file -> mtime, -1 when absent
    scan_state_file,        \* contents of STATE_FILE
    processing_list_file,   \* contents of PROCESSING_LIST_FILE
    completed_files_log,    \* contents of COMPLETED_FILES_LOG
    DAILY_BATCH_LIMIT,      \* module global, line 28
    REQUESTS_PER_MINUTE,    \* module global, line 29
    SCAN_MODE,              \* module global, line 26
    AI_PROVIDER,            \* module global, line 23
    API_KEYS,               \* the providers whose key is set, lines 21-22
    root_exists,            \* whether PHOTOS_BASE_PATH is a directory
    unclassifiable,         \* the photos for which tag_image raises every time
    pc,                     \* where the process is in batch_process_images
    processing_dict,        \* locals of batch_process_images
    completed_dict,
    to_process,
    batch_today,
    idx,                    \* position of the for loop in batch_today
    requests_sent,
    log,                    \* what the current run did, in order
    failed,                 \* identities whose tag_image raised in the last run
    tracked,                \* whether the history below is kept
    history,                \* the identities earlier runs recorded, and how
    torn                    \* number of kills inside a write of a file

vars == <<clock, disk, scan_state_file, processing_list_file,
          completed_files_log, DAILY_BATCH_LIMIT, REQUESTS_PER_MINUTE,
          SCAN_MODE, AI_PROVIDER, API_KEYS, root_exists, unclassifiable, pc,
          processing_dict, completed_dict, to_process, batch_today, idx,
          requests_sent, log, failed, tracked, history, torn>>

env     == <<clock, disk>>
files   == <<scan_state_file, processing_list_file, completed_files_log>>
config  == <<DAILY_BATCH_LIMIT, REQUESTS_PER_MINUTE, AI_PROVIDER, API_KEYS,
             root_exists, unclassifiable>>
ghosts  == <<failed, tracked, history>>
locals  == <<processing_dict, completed_dict, to_process, batch_today,
             idx, requests_sent>>

----------------------------------------------------------------------------
(* Bounds *)

NumFiles == 2
\* files of the tree in the batch-only specification
BatchFiles == 7
MaxClock == 1
\* kills inside update_processing_list or save_completed_file in a behaviour
MaxTorn == 1
\* lines of the new text a killed write leaves at most
MaxCut == 1
\* calls of save_completed_file when it is taken alone
MaxCalls == 3

----------------------------------------------------------------------------
(* Configuration *)

\* the values of DAILY_BATCH_LIMIT (line 28) the runs are configured with
Limits == {1, 2}
\* the value of REQUESTS_PER_MINUTE (line 29) they are configured with
Rate == 2
\* the values of both for the runs of the batch loop alone
BatchLimits == {BatchFiles - 2, BatchFiles}
BatchRates == {2, 3}

----------------------------------------------------------------------------
(* Paths *)

FileNames == <<"a.jpg", "b.jpg", "c.png", "d.jpg", "e.jpeg", "f.png",
               "g.jpg", "h.jpg", "i.png", "j.jpg">>

\* PHOTOS_BASE_PATH, the default of line 32 as tokens
PHOTOS_BASE_PATH == <<"\\", "\\", "vinut_syno", "\\", "home", "\\", "Photos">>

\* os.path.join(root, file) of line 175, for the f-th file of the tree
FullPath(f) == PHOTOS_BASE_PATH \o <<"\\", FileNames[f]>>

RECURSIVE Find(_, _, _)
\* str.find: the first position >= i of token t in p, 0 when there is none
Find(p, t, i) ==
    IF i > Len(p) THEN 0
    ELSE IF p[i] = t THEN i
    ELSE Find(p, t, i + 1)

\* str.replace("\\", "/")
Slashes(p) == [i \in DOMAIN p |-> IF p[i] = "\\" THEN "/" ELSE p[i]]

normalize_path(full_path) ==
    LET i == Find(full_path, "Photos", 1)
    IN  IF i > 0
        THEN Slashes(SubSeq(full_path, i, Len(full_path)))
        ELSE Slashes(full_path)

----------------------------------------------------------------------------
(* Dicts and files *)

Keys(d) == {d[i].normalized_path : i \in DOMAIN d}

HasKey(d, k) == \E i \in DOMAIN d : d[i].normalized_path = k

\* d[k] = v: in place when k is a key of d, appended otherwise
DictSet(d, k, v) ==
    IF HasKey(d, k)
    THEN [i \in DOMAIN d |-> IF d[i].normalized_path = k THEN v ELSE d[i]]
    ELSE Append(d, v)

RECURSIVE DictFromList(_)
\* {item["normalized_path"]: item for item in data}
DictFromList(data) ==
    IF data = <<>> THEN <<>>
    ELSE LET n == Len(data)
         IN  DictSet(DictFromList(SubSeq(data, 1, n - 1)),
                     data[n].normalized_path, data[n])

Absent == [kind |-> "absent"]
Json(items) == [kind |-> "json", items |-> items]
Text(lines) == [kind |-> "text", lines |-> lines]

\* load_scan_state: the saved timestamp, 0 for a missing or unreadable file
load_scan_state(file) ==
    IF file.kind = "json" THEN file.state ELSE 0

\* save_scan_state: the file it leaves
save_scan_state(timestamp) == [kind |-> "json", state |-> timestamp]

\* load_processing_list: {} for a missing or unreadable file
load_processing_list(file) ==
    IF file.kind = "json" THEN DictFromList(file.items) ELSE <<>>

\* save_processing_list: the file it leaves, list(processing_dict.values())
save_processing_list(d) == Json(d)

RECURSIVE Distinct(_)
\* the lines of a text without repetitions (set(...) of line 123)
Distinct(lines) ==
    IF lines = <<>> THEN <<>>
    ELSE LET n == Len(lines)
             rest == Distinct(SubSeq(lines, 1, n - 1))
         IN  IF \E i \in DOMAIN rest : rest[i] = lines[n]
             THEN rest ELSE Append(rest, lines[n])

\* the legacy branch of load_completed_files: one record per line, the line
\* itself as the key
LegacyRecords(lines) ==
    LET paths == Distinct(lines)
    IN  [i \in DOMAIN paths |->
            [normalized_path |-> paths[i], completed_time |-> 0]]

load_completed_files(file) ==
    CASE file.kind = "json" -> DictFromList(file.items)
      [] file.kind = "text" -> LegacyRecords(file.lines)
      [] OTHER -> <<>>

\* the lines json.dump(record, indent=2) writes for one record
RecordLines(r) ==
    <<  <<"{">>,
        <<"normalized_path:">> \o r.normalized_path >>
    \o (IF "full_path" \in DOMAIN r
        THEN << <<"full_path:">> \o r.full_path >> ELSE <<>>)
    \o << <<"completed_time:", ToString(r.completed_time)>>,
          <<"}">> >>

RECURSIVE JsonLines(_)
\* the lines json.dump(items, indent=2) writes, without the closing "]"
JsonLines(items) ==
    IF items = <<>> THEN << <<"[">> >>
    ELSE LET n == Len(items)
         IN  JsonLines(SubSeq(items, 1, n - 1)) \o RecordLines(items[n])

\* the dict save_completed_file builds (lines 130-136)
CompletedWith(file, normalized_path, full_path, now) ==
    DictSet(load_completed_files(file), normalized_path,
            [normalized_path |-> normalized_path,
             full_path |-> full_path,
             completed_time |-> now])

\* a save that appends the record to the list it loaded
SaveAppending(file, normalized_path, full_path, now) ==
    Json(Append(load_completed_files(file),
                [normalized_path |-> normalized_path,
                 full_path |-> full_path,
                 completed_time |-> now]))

\* save_completed_file: the file it leaves when it returns
save_completed_file(file, normalized_path, full_path, now) ==
    Json(CompletedWith(file, normalized_path, full_path, now))

\* what a kill between open(..., "w") and the end of json.dump leaves of
\* save_completed_file: the first n lines of the new text, n <= MaxCut
TornLedgers(file, normalized_path, full_path, now) ==
    LET lines == JsonLines(CompletedWith(file, normalized_path, full_path, now))
    IN  {Text(SubSeq(lines, 1, n)) : n \in 0..MaxCut}

----------------------------------------------------------------------------
(* Scanning *)

RECURSIVE WalkNotOlder(_, _, _, _)
\* a walk that also takes the photos modified at the time of the cursor
WalkNotOlder(tree, f, last_scan_time, scan_mode) ==
    IF f = 0 THEN <<>>
    ELSE LET before == WalkNotOlder(tree, f - 1, last_scan_time, scan_mode)
             full_path == FullPath(f)
             mod_time == tree[f]
         IN  IF tree[f] # -1
                /\ (scan_mode = "backlog" \/ mod_time >= last_scan_time)
             THEN DictSet(before, normalize_path(full_path),
                          [normalized_path |-> normalize_path(full_path),
                           full_path |-> full_path,
                           mod_time |-> mod_time])
             ELSE before

RECURSIVE Walk(_, _, _, _)
\* the loop of lines 172-185 over the files 1..f of the tree
Walk(tree, f, last_scan_time, scan_mode) ==
    IF f = 0 THEN <<>>
    ELSE LET before == Walk(tree, f - 1, last_scan_time, scan_mode)
             full_path == FullPath(f)
             mod_time == tree[f]
         IN  IF tree[f] # -1
                /\ (scan_mode = "backlog" \/ mod_time > last_scan_time)
             THEN DictSet(before, normalize_path(full_path),
                          [normalized_path |-> normalize_path(full_path),
                           full_path |-> full_path,
                           mod_time |-> mod_time])
             ELSE before

\* scan_for_new_files; walk_error: os.walk raised (lines 194-196)
scan_for_new_files(tree, last_scan_time, scan_mode, walk_error) ==
    IF walk_error THEN <<>>
    ELSE Walk(tree, Len(tree), last_scan_time, scan_mode)

RECURSIVE AddNewOrRefresh(_, _, _)
\* a merge that takes the scanned entry also for a key the catalog has
AddNewOrRefresh(d, new_files, now) ==
    IF new_files = <<>> THEN d
    ELSE LET n == Len(new_files)
             before == AddNewOrRefresh(d, SubSeq(new_files, 1, n - 1), now)
             item == new_files[n]
         IN  DictSet(before, item.normalized_path,
                     [normalized_path |-> item.normalized_path,
                      full_path |-> item.full_path,
                      mod_time |-> item.mod_time,
                      added_time |-> now])

RECURSIVE AddNew(_, _, _)
\* lines 216-224 of update_processing_list
AddNew(d, new_files, now) ==
    IF new_files = <<>> THEN d
    ELSE LET n == Len(new_files)
             before == AddNew(d, SubSeq(new_files, 1, n - 1), now)
             item == new_files[n]
         IN  IF HasKey(before, item.normalized_path) THEN before
             ELSE Append(before,
                         [normalized_path |-> item.normalized_path,
                          full_path |-> item.full_path,
                          mod_time |-> item.mod_time,
                          added_time |-> now])

----------------------------------------------------------------------------
(* Reconciliation *)

\* the delta of a run that forgets to look at the ledger
DeltaIgnoringLedger(catalog, ledger) ==
    [i \in DOMAIN catalog |-> <<catalog[i].normalized_path, catalog[i].full_path>>]

\* the delta of a run that puts each pending entry in front of the others
DeltaNewestFirst(catalog, ledger) ==
    LET pending == SelectSeq(catalog, LAMBDA item : ~HasKey(ledger, item.normalized_path))
    IN  [i \in DOMAIN pending |->
            <<pending[Len(pending) + 1 - i].normalized_path,
              pending[Len(pending) + 1 - i].full_path>>]

RECURSIVE CalculateDelta(_, _)
\* lines 458-461 (and 474-477, 486-489): (normalized_path, full_path) of the
\* catalog entries that the ledger does not hold, in catalog order
CalculateDelta(catalog, ledger) ==
    IF catalog = <<>> THEN <<>>
    ELSE LET n == Len(catalog)
             before == CalculateDelta(SubSeq(catalog, 1, n - 1), ledger)
         IN  IF HasKey(ledger, catalog[n].normalized_path) THEN before
             ELSE Append(before, <<catalog[n].normalized_path,
                                   catalog[n].full_path>>)

\* a slice that takes one entry more than the limit
BatchPrefixOneMore(delta, limit) ==
    SubSeq(delta, 1, IF limit + 1 < Len(delta) THEN limit + 1 ELSE Len(delta))

\* to_process[:DAILY_BATCH_LIMIT] of line 500
BatchPrefix(delta, limit) ==
    SubSeq(delta, 1, IF limit < Len(delta) THEN limit ELSE Len(delta))

\* os.path.exists(full_path) of line 509
Exists(tree, full_path) ==
    \E f \in DOMAIN tree : FullPath(f) = full_path /\ tree[f] # -1

Event(ev, id) == [ev |-> ev, id |-> id]

\* what os.walk and os.path.exists see of the tree: nothing when the root is
\* not there
Tree == IF root_exists THEN disk ELSE [f \in DOMAIN disk |-> -1]

\* the providers of initialize_client, lines 420 and 427
Providers == {"gemini", "mistral"}

\* a client for every provider that is known, with or without its key
ClientKeyUnchecked == AI_PROVIDER \in Providers

\* initialize_client returns a client (lines 420-432): the provider is one of
\* the two and its key is set
ClientReady == AI_PROVIDER \in Providers /\ AI_PROVIDER \in API_KEYS

\* the default provider with its key, the root in place, and no photo that
\* the provider can never classify
Configured ==
    /\ AI_PROVIDER = "gemini"
    /\ API_KEYS = {"gemini"}
    /\ root_exists = TRUE
    /\ unclassifiable = {}

----------------------------------------------------------------------------
(* State *)

Fresh ==
    /\ pc = "idle"
    /\ processing_dict = <<>>
    /\ completed_dict = <<>>
    /\ to_process = <<>>
    /\ batch_today = <<>>
    /\ idx = 1
    /\ requests_sent = 0
    /\ log = <<>>
    /\ failed = {}
    /\ history = {}
    /\ torn = 0

\* a first installation: no state file, no catalog, no ledger
Init ==
    /\ clock = 1
    /\ disk \in [1..NumFiles -> {-1, 1}]
    /\ scan_state_file = Absent
    /\ processing_list_file = Absent
    /\ completed_files_log = Absent
    /\ DAILY_BATCH_LIMIT \in Limits
    /\ REQUESTS_PER_MINUTE = Rate
    /\ Configured
    /\ SCAN_MODE = "backlog"
    /\ tracked = FALSE
    /\ Fresh

\* the identities a run with log l attempted
Attempted(l) ==
    {l[i].id : i \in {i \in DOMAIN l : l[i].ev \in {"missing", "tag_ok", "tag_fail"}}}

\* the identities for which tag_image raised in a run with log l
Failed(l) == {l[i].id : i \in {i \in DOMAIN l : l[i].ev = "tag_fail"}}

\* the identities a run with log l recorded, with the branch that did it
Recorded(l) ==
    {<<l[i].id, IF \E j \in DOMAIN l : l[j] = Event("missing", l[i].id)
                THEN "missing" ELSE "tagged">> :
        i \in {i \in DOMAIN l : l[i].ev = "record"}}

\* the process is gone: its locals with it
Exit(l) ==
    /\ pc' = "idle"
    /\ processing_dict' = <<>>
    /\ completed_dict' = <<>>
    /\ to_process' = <<>>
    /\ batch_today' = <<>>
    /\ idx' = 1
    /\ requests_sent' = 0
    /\ log' = <<>>
    /\ SCAN_MODE' = "backlog"
    /\ failed' = Failed(l)
    /\ history' = IF tracked
                  THEN {h \in history : h[1] \notin Attempted(l)} \cup Recorded(l)
                  ELSE history
    /\ UNCHANGED tracked

----------------------------------------------------------------------------
(* Environment *)

\* time passes
Tick ==
    /\ clock < MaxClock
    /\ clock' = clock + 1
    /\ UNCHANGED <<disk, files, config, SCAN_MODE, pc, locals, log, ghosts, torn>>

\* a photo is copied into the tree, or modified
WriteFile(f) ==
    /\ disk[f] # clock
    /\ disk' = [disk EXCEPT ![f] = clock]
    /\ UNCHANGED <<clock, files, config, SCAN_MODE, pc, locals, log, ghosts, torn>>

\* a photo is deleted from the tree
RemoveFile(f) ==
    /\ disk[f] # -1
    /\ disk' = [disk EXCEPT ![f] = -1]
    /\ UNCHANGED <<clock, files, config, SCAN_MODE, pc, locals, log, ghosts, torn>>

\* the process is terminated between two steps of a run
Kill ==
    /\ pc # "idle"
    /\ Exit(log)
    /\ UNCHANGED <<env, files, config, torn>>

----------------------------------------------------------------------------
(* batch_process_images *)

\* lines 441-461: a new process loads the catalog and the ledger and
\* computes the delta
BatchStart(scan_mode) ==
    /\ pc = "idle"
    /\ ClientReady
    /\ pc' = "loaded"
    /\ SCAN_MODE' = scan_mode
    /\ processing_dict' = load_processing_list(processing_list_file)
    /\ completed_dict' = load_completed_files(completed_files_log)
    /\ to_process' = CalculateDelta(processing_dict', completed_dict')
    /\ UNCHANGED <<env, files, config, batch_today, idx, requests_sent, log,
                   ghosts, torn>>

\* the catalog update_processing_list builds (lines 206-224)
update_processing_list(list_file, state_file, tree, scan_mode, now, walk_error) ==
    LET last_scan_time ==
            IF scan_mode = "incremental" THEN load_scan_state(state_file) ELSE 0
        new_files == scan_for_new_files(tree, last_scan_time, scan_mode, walk_error)
    IN  AddNew(load_processing_list(list_file), new_files, now)

\* a run that scans only when there is no catalog
ScanOnlyWhenEmpty == Len(processing_dict) = 0

\* lines 464 and 480: the run scans when the catalog is empty or drained
NeedsScan == Len(processing_dict) = 0 \/ Len(to_process) = 0

\* lines 491-504: the end of the run when the delta is empty, the batch
\* otherwise
StartBatch(catalog, delta, l) ==
    IF Len(delta) = 0
    THEN Exit(l)
    ELSE /\ processing_dict' = catalog
         /\ to_process' = delta
         /\ batch_today' = BatchPrefix(delta, DAILY_BATCH_LIMIT)
         /\ requests_sent' = 0
         /\ pc' = "batch"
         /\ log' = l
         /\ UNCHANGED <<completed_dict, idx, ghosts, SCAN_MODE>>

\* lines 491-504 in the Draining state: no scan
BatchDrain ==
    /\ pc = "loaded"
    /\ ~NeedsScan
    /\ StartBatch(processing_dict, to_process, log)
    /\ UNCHANGED <<env, files, config, torn>>

\* a scan that moves the cursor only when it added to the catalog
BatchScanCursorIfAdded(walk_error) ==
    /\ pc = "loaded"
    /\ NeedsScan
    /\ LET catalog == update_processing_list(processing_list_file, scan_state_file,
                                             Tree, SCAN_MODE, clock, walk_error)
       IN  /\ processing_list_file' = save_processing_list(catalog)
           /\ scan_state_file' =
                  IF SCAN_MODE = "incremental"
                     /\ Len(catalog) > Len(load_processing_list(processing_list_file))
                  THEN save_scan_state(clock)
                  ELSE scan_state_file
           /\ StartBatch(catalog, CalculateDelta(catalog, completed_dict),
                         Append(log, Event("scan", <<>>)))
    /\ UNCHANGED <<env, completed_files_log, config, torn>>

\* lines 463-504 in the Bootstrap and Replenishing states:
\* update_processing_list, the new delta, the batch
BatchScan(walk_error) ==
    /\ pc = "loaded"
    /\ NeedsScan
    /\ LET catalog == update_processing_list(processing_list_file, scan_state_file,
                                             Tree, SCAN_MODE, clock, walk_error)
       IN  /\ processing_list_file' = save_processing_list(catalog)
           /\ scan_state_file' = IF SCAN_MODE = "incremental"
                                 THEN save_scan_state(clock)
                                 ELSE scan_state_file
           /\ StartBatch(catalog, CalculateDelta(catalog, completed_dict),
                         Append(log, Event("scan", <<>>)))
    /\ UNCHANGED <<env, completed_files_log, config, torn>>

\* the process is terminated inside update_processing_list: in the write of
\* the catalog ("list"), between the two writes ("between"), or in the write
\* of the cursor ("state")
BatchScanKilled(walk_error, at) ==
    /\ pc = "loaded"
    /\ NeedsScan
    /\ torn < MaxTorn
    /\ at = "state" => SCAN_MODE = "incremental"
    /\ LET catalog == update_processing_list(processing_list_file, scan_state_file,
                                             Tree, SCAN_MODE, clock, walk_error)
       IN  /\ processing_list_file' = IF at = "list" THEN Text(<<>>)
                                      ELSE save_processing_list(catalog)
           /\ scan_state_file' = IF at = "state" THEN Text(<<>>)
                                 ELSE scan_state_file
    /\ torn' = torn + 1
    /\ Exit(log)
    /\ UNCHANGED <<env, completed_files_log, config>>

\* the item the for loop of line 506 is at
AtItem == pc = "batch" /\ idx <= Len(batch_today)
Item == batch_today[idx]

\* tag_image (line 515) raises for this photo whenever it is called
Unclassifiable(full_path) ==
    \E f \in unclassifiable : FullPath(f) = full_path

\* a pause taken one request early
PausesOneEarly(sent, rate) == (sent + 1) % rate = 0

\* line 527: the pause after the requests_sent-th request
Pauses(sent, rate) == sent % rate = 0

\* lines 509-513: the file is gone; the item is recorded and the loop goes on
ItemMissing ==
    /\ AtItem
    /\ ~Exists(Tree, Item[2])
    /\ completed_files_log' =
           save_completed_file(completed_files_log, Item[1], Item[2], clock)
    /\ log' = log \o <<Event("missing", Item[1]), Event("record", Item[1])>>
    /\ idx' = idx + 1
    /\ UNCHANGED <<env, scan_state_file, processing_list_file, config, SCAN_MODE,
                   pc, processing_dict, completed_dict, to_process, batch_today,
                   requests_sent, ghosts, torn>>

\* a loop that marks the item done although tag_image raised
ItemTagFailsRecorded ==
    /\ AtItem
    /\ Exists(Tree, Item[2])
    /\ completed_files_log' =
           save_completed_file(completed_files_log, Item[1], Item[2], clock)
    /\ log' = Append(log, Event("tag_fail", Item[1]))
    /\ idx' = idx + 1
    /\ UNCHANGED <<env, scan_state_file, processing_list_file, config, SCAN_MODE,
                   pc, processing_dict, completed_dict, to_process, batch_today,
                   requests_sent, ghosts, torn>>

\* lines 515, 531-533: tag_image raises; the item is logged and left
ItemTagFails ==
    /\ AtItem
    /\ Exists(Tree, Item[2])
    /\ log' = Append(log, Event("tag_fail", Item[1]))
    /\ idx' = idx + 1
    /\ UNCHANGED <<env, files, config, SCAN_MODE, pc, processing_dict,
                   completed_dict, to_process, batch_today, requests_sent,
                   ghosts, torn>>

\* a loop in which a failure of add_tags_to_metadata reaches the except of
\* line 531: the item is not recorded
ItemTaggedUnlessMetaFails(meta) ==
    /\ AtItem
    /\ Exists(Tree, Item[2])
    /\ completed_files_log' =
           IF meta = "meta_fail" THEN completed_files_log
           ELSE save_completed_file(completed_files_log, Item[1], Item[2], clock)
    /\ requests_sent' = IF meta = "meta_fail" THEN requests_sent
                        ELSE requests_sent + 1
    /\ log' = log \o <<Event("tag_ok", Item[1]), Event(meta, Item[1])>>
                  \o (IF meta = "meta_fail" THEN <<>>
                      ELSE <<Event("record", Item[1])>>)
    /\ idx' = idx + 1
    /\ UNCHANGED <<env, scan_state_file, processing_list_file, config, SCAN_MODE,
                   pc, processing_dict, completed_dict, to_process, batch_today,
                   ghosts, torn>>

\* lines 515-529: tag_image returns, add_tags_to_metadata writes the tags or
\* catches its own failure (lines 414-415), the item is recorded, and the
\* loop pauses when the rate limit is reached
ItemTagged(meta) ==
    /\ AtItem
    /\ Exists(Tree, Item[2])
    /\ ~Unclassifiable(Item[2])
    /\ completed_files_log' =
           save_completed_file(completed_files_log, Item[1], Item[2], clock)
    /\ requests_sent' = requests_sent + 1
    /\ log' = log \o <<Event("tag_ok", Item[1]), Event(meta, Item[1]),
                       Event("record", Item[1])>>
                  \o (IF Pauses(requests_sent', REQUESTS_PER_MINUTE)
                      THEN <<Event("pause", <<>>)>> ELSE <<>>)
    /\ idx' = idx + 1
    /\ UNCHANGED <<env, scan_state_file, processing_list_file, config, SCAN_MODE,
                   pc, processing_dict, completed_dict, to_process, batch_today,
                   ghosts, torn>>

\* the process is terminated inside save_completed_file, between the
\* open(..., "w") of line 140 and the end of json.dump
ItemKilledInSave(meta) ==
    /\ AtItem
    /\ torn < MaxTorn
    /\ completed_files_log' \in
           TornLedgers(completed_files_log, Item[1], Item[2], clock)
    /\ torn' = torn + 1
    /\ Exit(log \o (IF Exists(Tree, Item[2])
                    THEN <<Event("tag_ok", Item[1]), Event(meta, Item[1])>>
                    ELSE <<Event("missing", Item[1])>>))
    /\ UNCHANGED <<env, scan_state_file, processing_list_file, config>>

\* lines 535-537: the batch is done
BatchEnd ==
    /\ pc = "batch"
    /\ idx > Len(batch_today)
    /\ Exit(log)
    /\ UNCHANGED <<env, files, config, torn>>

----------------------------------------------------------------------------
(* Specifications *)

ScanModes == {"backlog", "incremental"}
MetaOutcomes == {"meta_ok", "meta_fail"}

Run ==
    \/ \E m \in ScanModes : BatchStart(m)
    \/ BatchDrain
    \/ \E e \in BOOLEAN : BatchScan(e)
    \/ ItemMissing
    \/ ItemTagFails
    \/ \E m \in MetaOutcomes : ItemTagged(m)
    \/ BatchEnd

\* A run reads the clock when it writes a record, and the tree in the scan
\* and in os.path.exists: a change of the tree is taken between two runs or
\* right before the run looks at the file, which is where the run first
\* sees it.
Observed(f) == pc = "idle" \/ (AtItem /\ FullPath(f) = Item[2])

Next ==
    \/ pc = "idle" /\ \E f \in DOMAIN disk : WriteFile(f)
    \/ \E f \in DOMAIN disk : Observed(f) /\ RemoveFile(f)
    \/ Kill
    \/ \E e \in BOOLEAN, at \in {"list", "between", "state"} : BatchScanKilled(e, at)
    \/ \E m \in MetaOutcomes : ItemKilledInSave(m)
    \/ Run

Spec == Init /\ [][Next]_vars

\* the same installation with the history kept
InitTracked ==
    /\ clock = 1
    /\ disk \in [1..NumFiles -> {-1, 1}]
    /\ scan_state_file = Absent
    /\ processing_list_file = Absent
    /\ completed_files_log = Absent
    /\ DAILY_BATCH_LIMIT \in Limits
    /\ REQUESTS_PER_MINUTE = Rate
    /\ Configured
    /\ SCAN_MODE = "backlog"
    /\ tracked = TRUE
    /\ Fresh

SpecTracked == InitTracked /\ [][Next]_vars

----------------------------------------------------------------------------
(* What a run did, read from its log *)

Attempts == {"missing", "tag_ok", "tag_fail"}

RECURSIVE AttemptSeq(_)
\* the identities a run with log l attempted, in the order it did
AttemptSeq(l) ==
    IF l = <<>> THEN <<>>
    ELSE LET n == Len(l)
             before == AttemptSeq(SubSeq(l, 1, n - 1))
         IN  IF l[n].ev \in Attempts THEN Append(before, l[n].id) ELSE before

\* the identities of a delta, in its order
DeltaIds(delta) == [i \in DOMAIN delta |-> delta[i][1]]

Range(q) == {q[i] : i \in DOMAIN q}

\* the position of key k in dict d
Pos(d, k) == CHOOSE i \in DOMAIN d : d[i].normalized_path = k

\* the keys of the ledger a run starting now would load
LedgerKeys == Keys(load_completed_files(completed_files_log))

----------------------------------------------------------------------------
(* C1 *)

\* C1: in every run, also one that follows a run killed between two items,
\* tag_image is invoked only for identities that are keys of the catalog and
\* not keys of the ledger the run loaded at its start, every attempted
\* identity is one of these, and no identity is attempted twice in one run.
C1_OnlyDeltaAttempted ==
    pc # "idle" =>
        /\ \A i \in DOMAIN log :
              log[i].ev \in {"tag_ok", "tag_fail"}
                  => ~HasKey(completed_dict, log[i].id)
        /\ Attempted(log) \subseteq Keys(processing_dict) \ Keys(completed_dict)
        /\ \A i, j \in DOMAIN log :
              (log[i].ev \in Attempts /\ log[j].ev \in Attempts
                  /\ log[i].id = log[j].id) => i = j

\* a run that loaded a ledger holding an identity of its catalog has
\* called tag_image for another identity
C1_Witness ==
    /\ pc = "batch"
    /\ Keys(completed_dict) \cap Keys(processing_dict) # {}
    /\ \E i \in DOMAIN log : log[i].ev = "tag_ok"

----------------------------------------------------------------------------
(* C2 *)

\* C2: whenever the process is terminated, also inside the rewrite of the
\* ledger by save_completed_file, the ledger the next run loads still holds
\* the key of every identity recorded before the item in progress.
C2_RecordedSurvivesKill ==
    pc = "idle" => \A h \in history : h[1] \in LedgerKeys

----------------------------------------------------------------------------
(* C3 *)

\* C3: when tag_image raises for an item, the ledger does not get the
\* identity, the loop goes on with the next item of the batch without a
\* second attempt at the item, and the identity is in the delta the next
\* run computes.
C3_FailedStaysPending ==
    /\ pc = "batch" =>
          /\ \A id \in Failed(log) : id \notin LedgerKeys
          /\ AttemptSeq(log) = DeltaIds(SubSeq(batch_today, 1, idx - 1))
    /\ pc # "idle" => failed \subseteq Range(DeltaIds(to_process))

\* a run attempts again an identity that failed in the run before, after
\* an item of its own that failed and was followed by the next item
C3_Witness ==
    /\ pc = "batch"
    /\ failed \cap Attempted(log) # {}
    /\ \E i, j \in DOMAIN log :
          i < j /\ log[i].ev = "tag_fail" /\ log[j].ev \in Attempts

----------------------------------------------------------------------------
(* C4 *)

\* C4: an item whose file does not exist when it is processed is recorded
\* in the ledger without a call of tag_image or add_tags_to_metadata for it,
\* and its identity is in the delta of no later run.
C4_VanishedResolvedForGood ==
    /\ \A i \in DOMAIN log :
          log[i].ev = "missing" =>
              /\ i < Len(log) /\ log[i + 1] = Event("record", log[i].id)
              /\ log[i].id \in LedgerKeys
              /\ \A j \in DOMAIN log :
                    log[j].id = log[i].id => log[j].ev \in {"missing", "record"}
    /\ \A h \in history :
          h[2] = "missing" => h[1] \notin Range(DeltaIds(to_process))

----------------------------------------------------------------------------
(* C5 *)

\* C5: an identity is written to the ledger only after its file was found
\* missing, or after tag_image returned for it and add_tags_to_metadata was
\* then called; a failure of add_tags_to_metadata does not keep the record
\* from being written; and tag_image is not called for the identity in a
\* later run.
C5_RecordedAfterSideEffects ==
    /\ \A i \in DOMAIN log :
          log[i].ev = "record" =>
              \/ i > 1 /\ log[i - 1] = Event("missing", log[i].id)
              \/ /\ i > 2
                 /\ log[i - 2] = Event("tag_ok", log[i].id)
                 /\ log[i - 1].ev \in MetaOutcomes
                 /\ log[i - 1].id = log[i].id
    /\ \A i \in DOMAIN log :
          log[i].ev = "meta_fail" =>
              i < Len(log) /\ log[i + 1] = Event("record", log[i].id)
    /\ \A h \in history :
          h[2] = "tagged" =>
              \A i \in DOMAIN log :
                  log[i].ev \in {"tag_ok", "tag_fail"} => log[i].id # h[1]

----------------------------------------------------------------------------
(* C6 *)

\* C6, as the specification states it: after a failure of the metadata
\* write the item stays pending and the ledger is not changed for it.
C6_MetadataFailureLeavesPending ==
    \A i \in DOMAIN log : log[i].ev = "meta_fail" => log[i].id \notin LedgerKeys

\* C6: a failure of the metadata write is caught inside
\* add_tags_to_metadata and does not stop the run, and the item does not
\* stay pending: save_completed_file is still called for it, so that the
\* ledger holds its identity when the step of the item is over, and the loop
\* goes on with the next item.
C6_MetadataFailureStillRecorded ==
    pc = "batch" =>
        /\ \A i \in DOMAIN log :
              log[i].ev = "meta_fail" =>
                  /\ log[i].id \in LedgerKeys
                  /\ i < Len(log) /\ log[i + 1] = Event("record", log[i].id)
        /\ AttemptSeq(log) = DeltaIds(SubSeq(batch_today, 1, idx - 1))

\* the metadata write of an item failed and the run is at a later item
C6_Witness ==
    /\ AtItem
    /\ \E i \in DOMAIN log : log[i].ev = "meta_fail"

----------------------------------------------------------------------------
(* C7 *)

\* C7: the delta of a run, the one computed from the loaded catalog and
\* again the one computed after a scan from the updated catalog, holds the
\* keys of the catalog that are not keys of the ledger, each once, with the
\* full path of its catalog entry, in the order of the catalog. The delta is
\* thereby determined by catalog and ledger: unchanged ones give the same
\* delta in the same order.
C7_DeltaIsCatalogMinusLedger ==
    pc # "idle" =>
        /\ Range(DeltaIds(to_process))
              = Keys(processing_dict) \ Keys(completed_dict)
        /\ \A i, j \in DOMAIN to_process :
              i < j => /\ to_process[i][1] # to_process[j][1]
                       /\ Pos(processing_dict, to_process[i][1])
                            < Pos(processing_dict, to_process[j][1])
        /\ \A i \in DOMAIN to_process :
              to_process[i][2]
                  = processing_dict[Pos(processing_dict, to_process[i][1])].full_path
        /\ pc = "loaded" =>
              /\ processing_dict = load_processing_list(processing_list_file)
              /\ completed_dict = load_completed_files(completed_files_log)

\* a Replenishing scan has added a photo to a catalog whose other entries
\* the ledger holds: the new delta is not empty and not the whole catalog
C7_Witness ==
    /\ pc = "batch"
    /\ \E i \in DOMAIN log : log[i].ev = "scan"
    /\ Keys(completed_dict) \cap Keys(processing_dict) # {}
    /\ to_process # <<>>

----------------------------------------------------------------------------
(* C9 *)

\* C9: the batch of a run is the first min(DAILY_BATCH_LIMIT, |delta|)
\* entries of the delta, the delta is in the order of the catalog, the items
\* are attempted in that order, at most DAILY_BATCH_LIMIT of them, and no
\* identity outside the batch is classified or recorded in the run.
C9_BatchIsBoundedPrefix ==
    pc = "batch" =>
        /\ Len(batch_today) <= DAILY_BATCH_LIMIT
        /\ Len(batch_today) <= Len(to_process)
        /\ Len(batch_today) = DAILY_BATCH_LIMIT \/ Len(batch_today) = Len(to_process)
        /\ \A i \in DOMAIN batch_today : batch_today[i] = to_process[i]
        /\ \A i, j \in DOMAIN to_process :
              i < j => Pos(processing_dict, to_process[i][1])
                         < Pos(processing_dict, to_process[j][1])
        /\ idx <= Len(batch_today) + 1
        /\ AttemptSeq(log) = DeltaIds(SubSeq(batch_today, 1, idx - 1))
        /\ \A i \in DOMAIN log :
              log[i].ev \in Attempts \cup MetaOutcomes \cup {"record"}
                  => \E k \in 1..(idx - 1) : batch_today[k][1] = log[i].id
        /\ LedgerKeys \subseteq
              Keys(completed_dict) \cup Range(DeltaIds(batch_today))

\* a batch is over that left entries of the delta for the next run
C9_Witness ==
    /\ pc = "batch"
    /\ idx > Len(batch_today)
    /\ Len(to_process) > DAILY_BATCH_LIMIT
    /\ \E i \in DOMAIN log : log[i].ev = "record"

----------------------------------------------------------------------------
(* The batch loop alone: a catalog of BatchFiles photos that a backlog scan
   wrote, an empty ledger, and one run that nothing interrupts *)

\* the tree with all its photos
FullTree == [f \in 1..BatchFiles |-> 1]

InitBatch ==
    /\ clock = 1
    /\ disk \in [1..BatchFiles -> {-1, 1}]
    /\ scan_state_file = Absent
    /\ processing_list_file =
           save_processing_list(
               update_processing_list(Absent, Absent, FullTree, "backlog", 1, FALSE))
    /\ completed_files_log = Absent
    /\ DAILY_BATCH_LIMIT \in BatchLimits
    /\ REQUESTS_PER_MINUTE \in BatchRates
    /\ Configured
    /\ SCAN_MODE = "backlog"
    /\ tracked = FALSE
    /\ Fresh

\* one run over the catalog: the Draining state, no scan
OneRun ==
    \/ completed_files_log = Absent /\ failed = {} /\ BatchStart("backlog")
    \/ BatchDrain
    \/ ItemMissing
    \/ ItemTagFails
    \/ \E m \in MetaOutcomes : ItemTagged(m)
    \/ BatchEnd

SpecBatch == InitBatch /\ [][OneRun]_vars

----------------------------------------------------------------------------
(* C8 *)

\* the number of events of kind ev among the first i of log l
Count(l, ev, i) == Cardinality({k \in 1..i : l[k].ev = ev})

\* C8: the loop pauses exactly when the number of items classified and
\* recorded has just become a positive multiple of REQUESTS_PER_MINUTE: a
\* pause follows the record of the n-th such item when and only when n is a
\* multiple of it, k such items give k \div REQUESTS_PER_MINUTE pauses,
\* items whose file is gone and items whose tag_image raised neither count
\* nor pause, and the items are attempted in the order of the batch all the
\* same.
C8_PausesAtMultiplesOfRate ==
    pc = "batch" =>
        /\ requests_sent = Count(log, "tag_ok", Len(log))
        /\ \A i \in DOMAIN log :
              (log[i].ev = "record" /\ i > 1 /\ log[i - 1].ev \in MetaOutcomes) =>
                  ((Count(log, "tag_ok", i) % REQUESTS_PER_MINUTE = 0)
                     <=> (i < Len(log) /\ log[i + 1].ev = "pause"))
        /\ \A i \in DOMAIN log :
              log[i].ev = "pause" =>
                  /\ i > 2
                  /\ log[i - 1].ev = "record"
                  /\ log[i - 2].ev \in MetaOutcomes
        /\ Count(log, "pause", Len(log))
              = Count(log, "tag_ok", Len(log)) \div REQUESTS_PER_MINUTE
        /\ AttemptSeq(log) = DeltaIds(SubSeq(batch_today, 1, idx - 1))

\* REQUESTS_PER_MINUTE = 3 and a batch of 7 items that all succeeded: two
\* pauses, after the record of the 3rd and of the 6th
C8_Witness ==
    /\ pc = "batch"
    /\ REQUESTS_PER_MINUTE = 3
    /\ Len(batch_today) = 7
    /\ Count(log, "tag_ok", Len(log)) = 7
    /\ {i \in DOMAIN log : log[i].ev = "pause"} = {10, 20}

----------------------------------------------------------------------------
(* save_completed_file alone: a ledger that is missing or in the legacy
   format, and calls for any identity under either mount of the tree *)

\* the same photo as another machine mounts it
MountedPath(f) == <<"/", "mnt", "/", "nas", "/", "Photos", "/", FileNames[f]>>

InitLedger ==
    /\ clock = 0
    /\ disk = [f \in 1..NumFiles |-> 0]
    /\ scan_state_file = Absent
    /\ processing_list_file = Absent
    /\ completed_files_log \in {Absent, Text(<<>>), Text(<<MountedPath(1)>>)}
    /\ DAILY_BATCH_LIMIT \in Limits
    /\ REQUESTS_PER_MINUTE = Rate
    /\ Configured
    /\ SCAN_MODE = "backlog"
    /\ tracked = FALSE
    /\ Fresh

\* save_completed_file(normalized_path, full_path), lines 128-141
RecordDone(full_path) ==
    /\ Len(log) < MaxCalls
    /\ completed_files_log' =
           save_completed_file(completed_files_log, normalize_path(full_path),
                               full_path, clock)
    /\ log' = Append(log, Event("record", normalize_path(full_path)))
    /\ UNCHANGED <<env, scan_state_file, processing_list_file, config, SCAN_MODE,
                   pc, locals, ghosts, torn>>

NextLedger ==
    \/ Tick
    \/ \E f \in DOMAIN disk : RecordDone(FullPath(f))
    \/ \E f \in DOMAIN disk : RecordDone(MountedPath(f))

SpecLedger == InitLedger /\ [][NextLedger]_vars

----------------------------------------------------------------------------
(* C10 *)

\* C10: save_completed_file(id, path) on a ledger with the keys K leaves a
\* ledger file with the keys K and id, one entry for id, one entry for every
\* other key and that entry as it was; a call for an id that is a key
\* already leaves the keys as they are, and no call removes a key.
C10_RecordInsertsOnce ==
    [][Len(log') = Len(log) + 1 =>
          LET id == log'[Len(log')].id
              before == load_completed_files(completed_files_log)
              after == completed_files_log'.items
          IN  /\ completed_files_log'.kind = "json"
              /\ Keys(after) = Keys(before) \cup {id}
              /\ Keys(load_completed_files(completed_files_log')) = Keys(after)
              /\ Cardinality({i \in DOMAIN after : after[i].normalized_path = id}) = 1
              /\ after[Pos(after, id)].completed_time = clock
              /\ Len(after) = Cardinality(Keys(after))
              /\ \A i \in DOMAIN before :
                    before[i].normalized_path # id
                        => \E j \in DOMAIN after : after[j] = before[i]
              /\ id \in Keys(before) => Keys(after) = Keys(before)
              /\ Keys(before) \subseteq Keys(after)
      ]_vars

\* an identity was recorded, then another, then the first again at a later
\* time: the ledger has one entry for each
C10_Witness ==
    /\ Len(log) = 3
    /\ log[1].id = log[3].id
    /\ log[1].id # log[2].id
    /\ completed_files_log.kind = "json"
    /\ Len(completed_files_log.items) = 2
    /\ completed_files_log.items[1].completed_time
          > completed_files_log.items[2].completed_time

----------------------------------------------------------------------------
(* Scans over time: runs in either mode that nothing interrupts, photos
   that are copied into the tree between the runs, and a clock that moves
   between the runs *)

InitScan ==
    /\ clock = 0
    /\ disk \in [1..NumFiles -> {-1, 0}]
    /\ scan_state_file = Absent
    /\ processing_list_file = Absent
    /\ completed_files_log = Absent
    /\ DAILY_BATCH_LIMIT \in Limits
    /\ REQUESTS_PER_MINUTE = Rate
    /\ Configured
    /\ SCAN_MODE = "backlog"
    /\ tracked = FALSE
    /\ Fresh

NextScan ==
    \/ pc = "idle" /\ Tick
    \/ pc = "idle" /\ \E f \in DOMAIN disk : WriteFile(f)
    \/ \E m \in ScanModes : BatchStart(m)
    \/ BatchDrain
    \/ \E e \in BOOLEAN : BatchScan(e)
    \/ ItemTagged("meta_ok")
    \/ BatchEnd

SpecScan == InitScan /\ [][NextScan]_vars

\* the run is in the Replenishing state: it loaded a catalog that is not
\* empty and a ledger that holds all its keys
Replenishing ==
    pc = "loaded" /\ Len(processing_dict) > 0 /\ Len(to_process) = 0

\* the keys the catalog file holds
CatalogKeys(file) == Keys(load_processing_list(file))

----------------------------------------------------------------------------
(* C11 *)

\* C11: the scan of a run in incremental mode that loaded a drained catalog
\* adds to the catalog only photos whose modification time is greater than
\* the cursor the state file held before the scan (0 when no scan saved
\* one): each added entry has such a mod_time, and a photo of the tree that
\* was not in the catalog and whose modification time is not greater than
\* the cursor is not in it afterwards.
C11_IncrementalAddsOnlyNewer ==
    [][(Replenishing /\ SCAN_MODE = "incremental") =>
          LET cursor == load_scan_state(scan_state_file)
              after == load_processing_list(processing_list_file')
          IN  /\ \A i \in DOMAIN after :
                    after[i].normalized_path \notin CatalogKeys(processing_list_file)
                        => after[i].mod_time > cursor
              /\ \A f \in DOMAIN disk :
                    (/\ disk[f] <= cursor
                     /\ normalize_path(FullPath(f))
                            \notin CatalogKeys(processing_list_file))
                        => normalize_path(FullPath(f)) \notin Keys(after)
      ]_vars

\* an incremental run has scanned from the Replenishing state and has added
\* a photo to the catalog
C11_Witness ==
    /\ pc = "batch"
    /\ SCAN_MODE = "incremental"
    /\ \E i \in DOMAIN log : log[i].ev = "scan"
    /\ Keys(completed_dict) \cap Keys(processing_dict) # {}
    /\ to_process # <<>>
    /\ \E i \in DOMAIN processing_dict :
          /\ processing_dict[i].normalized_path = to_process[1][1]
          /\ processing_dict[i].mod_time > load_scan_state(Absent)

----------------------------------------------------------------------------
(* normalize_path alone: the photos of the tree as machines with other
   mounts and other separators name them *)

\* paths normalized in a behaviour
MaxPaths == 2

\* the directories above the Photos folder, each a sequence of name chunks
Prefixes ==
    { <<>>,
      << <<"mnt">>, <<"nas">> >>,
      << <<"vinut_syno">>, <<"home">> >>,
      << <<"home">>, <<"Photos", "_old">> >>,
      << <<"Photos">>, <<"2024">> >> }

Separators == {"/", "\\"}

RECURSIVE Join(_, _)
\* the directories of a prefix, each after a separator
Join(prefix, sep) ==
    IF prefix = <<>> THEN <<>>
    ELSE LET n == Len(prefix)
         IN  Join(SubSeq(prefix, 1, n - 1), sep) \o <<sep>> \o prefix[n]

\* the f-th photo of the tree under a prefix, in a separator style
PathOf(prefix, sep, f) ==
    Join(prefix, sep) \o <<sep, "Photos", sep, FileNames[f]>>

InitPaths ==
    /\ clock = 0
    /\ disk = [f \in 1..NumFiles |-> 0]
    /\ scan_state_file = Absent
    /\ processing_list_file = Absent
    /\ completed_files_log = Absent
    /\ DAILY_BATCH_LIMIT \in Limits
    /\ REQUESTS_PER_MINUTE = Rate
    /\ Configured
    /\ SCAN_MODE = "backlog"
    /\ tracked = FALSE
    /\ Fresh

\* normalize_path(full_path), lines 63-70, for one way to name photo f
NormalizePath(prefix, sep, f) ==
    /\ Len(log) < MaxPaths
    /\ LET full_path == PathOf(prefix, sep, f)
       IN  log' = Append(log, Event("normalize",
                                    <<f, full_path, normalize_path(full_path)>>))
    /\ UNCHANGED <<env, files, config, SCAN_MODE, pc, locals, ghosts, torn>>

NextPaths ==
    \E prefix \in Prefixes, sep \in Separators, f \in DOMAIN disk :
        NormalizePath(prefix, sep, f)

SpecPaths == InitPaths /\ [][NextPaths]_vars

----------------------------------------------------------------------------
(* C12 *)

\* C12: two paths that name the same photo of the tree under different
\* prefixes or in different separator styles, also under a prefix that
\* contains the text "Photos" itself, have the same normalized path.
C12_SameFileSameIdentity ==
    \A i, j \in DOMAIN log :
        log[i].id[1] = log[j].id[1] => log[i].id[3] = log[j].id[3]

----------------------------------------------------------------------------
(* Runs over a ledger in the legacy format: one line for the first photo,
   as a machine wrote it that kept raw paths, or normalized ones *)

InitLegacy ==
    /\ clock = 1
    /\ disk \in [1..NumFiles -> {-1, 1}]
    /\ scan_state_file = Absent
    /\ processing_list_file = Absent
    /\ completed_files_log \in {Text(<<FullPath(1)>>),
                                Text(<<normalize_path(FullPath(1))>>)}
    /\ DAILY_BATCH_LIMIT \in Limits
    /\ REQUESTS_PER_MINUTE = Rate
    /\ Configured
    /\ SCAN_MODE = "backlog"
    /\ tracked = FALSE
    /\ Fresh

NextLegacy ==
    \/ \E f \in DOMAIN disk : Observed(f) /\ RemoveFile(f)
    \/ Run

SpecLegacy == InitLegacy /\ [][NextLegacy]_vars

----------------------------------------------------------------------------
(* C13 *)

\* C13: a ledger in the legacy format loads as one record per line with
\* completed_time 0, under a key that is the normalized path of the line:
\* a photo the loaded ledger names, by its raw or by its normalized path, is
\* not in the delta of the run.
C13_LegacyLinesNormalized ==
    /\ completed_files_log.kind = "text" =>
          LET ledger == load_completed_files(completed_files_log)
          IN  /\ Len(ledger) = Len(completed_files_log.lines)
              /\ \A i \in DOMAIN ledger : ledger[i].completed_time = 0
    /\ pc # "idle" =>
          \A i \in DOMAIN completed_dict :
              normalize_path(completed_dict[i].normalized_path)
                  \notin Range(DeltaIds(to_process))

----------------------------------------------------------------------------
(* Runs under any configuration of the provider and with or without the
   root of the tree, over no catalog or the catalog of the whole tree *)

\* line 441: initialize_client raises ValueError, which nothing catches: the
\* process ends before batch_process_images has loaded anything
BatchAbort ==
    /\ pc = "idle"
    /\ ~ClientReady
    /\ pc' = "aborted"
    /\ UNCHANGED <<env, files, config, SCAN_MODE, locals, log, ghosts, torn>>

InitFatal ==
    /\ clock = 1
    /\ disk \in [1..NumFiles -> {-1, 1}]
    /\ scan_state_file = Absent
    /\ processing_list_file \in
           {Absent,
            save_processing_list(
                update_processing_list(Absent, Absent, [f \in 1..NumFiles |-> 1],
                                       "backlog", 1, FALSE))}
    /\ completed_files_log = Absent
    /\ DAILY_BATCH_LIMIT \in Limits
    /\ REQUESTS_PER_MINUTE = Rate
    /\ AI_PROVIDER \in Providers \cup {"openai"}
    /\ API_KEYS \in SUBSET Providers
    /\ root_exists \in BOOLEAN
    /\ unclassifiable = {}
    /\ SCAN_MODE = "backlog"
    /\ tracked = FALSE
    /\ Fresh

NextFatal ==
    \/ BatchAbort
    \/ Run

SpecFatal == InitFatal /\ [][NextFatal]_vars

----------------------------------------------------------------------------
(* C14 *)

\* C14: with a provider that is not one of the two, or without the key of
\* the provider, the only thing a run does is to abort: it loads nothing,
\* scans nothing, calls neither tag_image nor add_tags_to_metadata, and the
\* state file, the catalog and the ledger stay as they are.
C14_NoClientNoRun ==
    [][(AI_PROVIDER \notin Providers \/ AI_PROVIDER \notin API_KEYS) =>
          /\ pc' = "aborted"
          /\ UNCHANGED <<files, locals, log>>
      ]_vars

\* a run was aborted for the missing key of its provider, over a catalog
\* with pending photos
C14_Witness ==
    /\ pc = "aborted"
    /\ AI_PROVIDER \in Providers
    /\ AI_PROVIDER \notin API_KEYS
    /\ CalculateDelta(load_processing_list(processing_list_file),
                      load_completed_files(completed_files_log)) # <<>>

----------------------------------------------------------------------------
(* C15 *)

\* C15: when the root of the tree does not exist, no run gets to an item of
\* a batch: no photo is looked up, classified or recorded, whatever the
\* catalog and the ledger are.
C15_NoRootNoItems ==
    ~root_exists =>
        /\ \A i \in DOMAIN log : log[i].ev \notin Attempts \cup {"record"}
        /\ completed_files_log = Absent

----------------------------------------------------------------------------
(* C16 *)

\* C16: a state file, a catalog or a ledger that is missing or is not the
\* JSON document the program writes loads as the default: the timestamp 0,
\* the empty catalog, the empty ledger, and so without any entry.
C16_MalformedLoadsDefault ==
    /\ scan_state_file.kind # "json" => load_scan_state(scan_state_file) = 0
    /\ processing_list_file.kind # "json"
          => load_processing_list(processing_list_file) = <<>>
    /\ completed_files_log.kind # "json"
          => load_completed_files(completed_files_log) = <<>>

----------------------------------------------------------------------------
(* C17 *)

\* C17: a run scans the tree at most once, and does so exactly when the
\* catalog it loaded is empty, or is not empty with an empty delta: it then
\* writes the catalog that update_processing_list built, and ends without
\* an item when the delta is empty still. A run that loaded a catalog with
\* a delta that is not empty goes to its batch without a scan, and neither
\* it nor any batch writes the catalog or the state file.
C17_OneScanWhenNothingPending ==
    [][/\ (pc = "idle" /\ pc' = "loaded") =>
             UNCHANGED <<processing_list_file, scan_state_file>>
       /\ (pc = "loaded" /\ pc' # "loaded") =>
             IF Len(processing_dict) = 0
                  \/ (Len(processing_dict) > 0 /\ Len(to_process) = 0)
             THEN /\ \E e \in BOOLEAN :
                        processing_list_file' =
                            save_processing_list(
                                update_processing_list(processing_list_file,
                                    scan_state_file, Tree, SCAN_MODE, clock, e))
                  /\ scan_state_file' = IF SCAN_MODE = "incremental"
                                        THEN save_scan_state(clock)
                                        ELSE scan_state_file
                  /\ LET delta == CalculateDelta(
                                      load_processing_list(processing_list_file'),
                                      completed_dict)
                     IN  IF delta = <<>>
                         THEN pc' = "idle" /\ UNCHANGED completed_files_log
                         ELSE /\ pc' = "batch"
                              /\ to_process' = delta
                              /\ log' = <<Event("scan", <<>>)>>
             ELSE /\ UNCHANGED <<processing_list_file, scan_state_file>>
                  /\ pc' = "batch"
                  /\ log' = <<>>
       /\ pc = "batch" =>
             /\ UNCHANGED <<processing_list_file, scan_state_file>>
             /\ pc' = "batch" =>
                   Count(log', "scan", Len(log')) = Count(log, "scan", Len(log))
      ]_vars

\* a run in backlog mode that loaded a drained catalog has scanned once and
\* is through a batch of what the scan added
C17_Witness ==
    /\ pc = "batch"
    /\ idx > Len(batch_today)
    /\ SCAN_MODE = "backlog"
    /\ Len(completed_dict) > 0
    /\ Count(log, "scan", Len(log)) = 1
    /\ Count(log, "record", Len(log)) >= 1

----------------------------------------------------------------------------
(* C18 *)

----------------------------------------------------------------------------
(* C19 *)

\* C19: a scan in incremental mode that ended in an error, and so delivered
\* less than the tree holds, leaves the state file as it was: a photo that
\* was modified after the cursor and is not in the catalog is newer than
\* the cursor of the next scan as well.
C19_FailedScanKeepsCursor ==
    [][(/\ pc = "loaded" /\ pc' # "loaded"
        /\ (Len(processing_dict) = 0 \/ Len(to_process) = 0)
        /\ SCAN_MODE = "incremental"
        /\ processing_list_file' #
               save_processing_list(
                   update_processing_list(processing_list_file, scan_state_file,
                                          Tree, SCAN_MODE, clock, FALSE))) =>
          /\ UNCHANGED scan_state_file
          /\ \A f \in DOMAIN disk :
                (/\ disk[f] > load_scan_state(scan_state_file)
                 /\ normalize_path(FullPath(f))
                        \notin CatalogKeys(processing_list_file'))
                    => disk[f] > load_scan_state(scan_state_file')
      ]_vars

----------------------------------------------------------------------------
(* C20 *)

\* C20: whatever a run does to the catalog file, the entries it held stay
\* as they were, in their order, also the entry of a photo that was
\* modified since; what is added is one entry for each scanned photo whose
\* key the catalog lacked, with the time of the scan as added_time; the keys
\* of the catalog never get fewer; and merging the result of a scan into
\* the catalog a second time changes nothing.
C20_CatalogOnlyGrows ==
    [][(pc = "loaded" \/ processing_list_file' # processing_list_file) =>
       LET before == load_processing_list(processing_list_file)
           after == load_processing_list(processing_list_file')
           new_files == scan_for_new_files(Tree, load_scan_state(scan_state_file),
                                           SCAN_MODE, FALSE)
           merged == AddNew(before, new_files, clock)
       IN  /\ Len(after) >= Len(before)
           /\ \A i \in DOMAIN before : after[i] = before[i]
           /\ Keys(before) \subseteq Keys(after)
           /\ Cardinality(Keys(after)) = Len(after)
           /\ \A i \in DOMAIN after \ DOMAIN before :
                 /\ after[i].normalized_path \notin Keys(before)
                 /\ after[i].added_time = clock
                 /\ \E f \in DOMAIN disk :
                       /\ Tree[f] # -1
                       /\ after[i].normalized_path = normalize_path(FullPath(f))
                       /\ after[i].full_path = FullPath(f)
                       /\ after[i].mod_time = Tree[f]
           /\ pc = "loaded" => AddNew(merged, new_files, clock + 1) = merged
      ]_vars

\* a run has scanned a tree in which a photo of the catalog was modified
\* after it was catalogued, and has added another photo
C20_Witness ==
    /\ pc = "batch"
    /\ \E i \in DOMAIN log : log[i].ev = "scan"
    /\ \E i \in DOMAIN processing_dict, f \in DOMAIN disk :
          /\ processing_dict[i].full_path = FullPath(f)
          /\ processing_dict[i].mod_time < disk[f]
    /\ \E i \in DOMAIN processing_dict :
          processing_dict[i].added_time = clock /\ clock > 0

----------------------------------------------------------------------------
(* update_processing_list alone: scans of a tree in either mode, some of
   which end in an error after the walk has gone through part of the tree *)

\* calls of update_processing_list in a behaviour
MaxScans == 2

InitWalk ==
    /\ clock = 1
    /\ disk \in [1..NumFiles -> {-1, 0, 1}]
    /\ scan_state_file = Absent
    /\ processing_list_file = Absent
    /\ completed_files_log = Absent
    /\ DAILY_BATCH_LIMIT \in Limits
    /\ REQUESTS_PER_MINUTE = Rate
    /\ Configured
    /\ SCAN_MODE = "backlog"
    /\ tracked = FALSE
    /\ Fresh

\* update_processing_list(base_path, scan_mode, logger), lines 199-237; with
\* walk_error the loop of line 172 raises when it has gone through the first
\* `at` photos of the tree, and without it the loop goes through them all
UpdateProcessingList(scan_mode, walk_error, at) ==
    /\ Len(log) < MaxScans
    /\ ~walk_error => at = Len(disk)
    /\ LET last_scan_time ==
               IF scan_mode = "incremental"
               THEN load_scan_state(scan_state_file) ELSE 0
           new_files == scan_for_new_files(Tree, last_scan_time, scan_mode,
                                           walk_error)
           catalog == update_processing_list(processing_list_file,
                          scan_state_file, Tree, scan_mode, clock, walk_error)
       IN  /\ processing_list_file' = save_processing_list(catalog)
           /\ scan_state_file' = IF scan_mode = "incremental"
                                 THEN save_scan_state(clock)
                                 ELSE scan_state_file
           /\ log' = Append(log,
                  Event(IF walk_error THEN "scan_error" ELSE "scan",
                        [at |-> at,
                         collected |-> Walk(Tree, at, last_scan_time, scan_mode),
                         new_files |-> new_files,
                         had |-> load_processing_list(processing_list_file),
                         catalog |-> catalog]))
    /\ UNCHANGED <<env, completed_files_log, config, SCAN_MODE, pc, locals,
                   ghosts, torn>>

NextWalk ==
    \E m \in ScanModes, e \in BOOLEAN, at \in 0..Len(disk) :
        UpdateProcessingList(m, e, at)

SpecWalk == InitWalk /\ [][NextWalk]_vars

----------------------------------------------------------------------------
(* C21 *)

\* C21: a scan whose walk raised returns the photos it had collected when
\* the error came, and update_processing_list has those that the catalog
\* lacked in the catalog it writes.
C21_FailedScanKeepsCollected ==
    \A i \in DOMAIN log :
        log[i].ev = "scan_error" =>
            /\ log[i].id.new_files = log[i].id.collected
            /\ Keys(log[i].id.collected) \subseteq Keys(log[i].id.catalog)

----------------------------------------------------------------------------
(* Runs without end over a tree whose photos stay, some of which the
   provider can never classify while it classifies every other one *)

InitProgress ==
    /\ clock = 1
    /\ disk = [f \in 1..NumFiles |-> 1]
    /\ scan_state_file = Absent
    /\ processing_list_file = Absent
    /\ completed_files_log = Absent
    /\ DAILY_BATCH_LIMIT \in Limits
    /\ REQUESTS_PER_MINUTE = Rate
    /\ AI_PROVIDER = "gemini"
    /\ API_KEYS = {"gemini"}
    /\ root_exists = TRUE
    /\ unclassifiable \in SUBSET (1..NumFiles)
    /\ SCAN_MODE = "backlog"
    /\ tracked = FALSE
    /\ Fresh

\* the script is started, in one mode or the other
Started == \E m \in ScanModes : BatchStart(m)

\* the scan of a run, with or without an error of the walk
Scanned == \E e \in BOOLEAN : BatchScan(e)

\* tag_image raises for a photo that the provider can never classify
ItemUnclassifiable == AtItem /\ Unclassifiable(Item[2]) /\ ItemTagFails

\* tag_image returns for any other photo
ItemClassified == \E m \in MetaOutcomes : ItemTagged(m)

NextProgress ==
    \/ Started
    \/ BatchDrain
    \/ Scanned
    \/ ItemUnclassifiable
    \/ ItemClassified
    \/ BatchEnd

\* WF_vars(Scanned), with ENABLED <<Scanned>>_vars written as the guard of
\* BatchScan, every step of which changes pc
ScanFair ==
    []<>(~(pc = "loaded" /\ NeedsScan)) \/ []<><<Scanned>>_vars

\* the script is started again and again, and a run that is started goes on
\* to its end
SpecProgress ==
    /\ InitProgress
    /\ [][NextProgress]_vars
    /\ WF_vars(Started)
    /\ WF_vars(BatchDrain)
    /\ ScanFair
    /\ WF_vars(ItemUnclassifiable)
    /\ WF_vars(ItemClassified)
    /\ WF_vars(BatchEnd)

----------------------------------------------------------------------------
(* C22 *)

\* C22: with runs repeated without end, a photo of the catalog that is in
\* the tree and that the provider classifies whenever it is asked to is at
\* some time in the ledger, whatever DAILY_BATCH_LIMIT is and whichever
\* other photos the provider can never classify.
C22_PendingEventuallyRecorded ==
    \A f \in 1..NumFiles :
        (/\ f \notin unclassifiable
         /\ normalize_path(FullPath(f)) \in CatalogKeys(processing_list_file))
            ~> (normalize_path(FullPath(f)) \in LedgerKeys)

====
